---- MODULE Spec2Model ----
(***************************************************************************)
(* Model of tools/sbom/generate-sbom.py: the pass of main() over the       *)
(* installed-file records of the SBOM metadata CSV, the package classifier,*)
(* the METADATA resolver and its cache, the SPDX fragment builder, the     *)
(* SPDX identifier encoder and the package verification code.             *)
(*                                                                         *)
(* A Python str is a sequence of characters; a character is a one-letter   *)
(* TLA+ string, and a non-ASCII character is written by its code point     *)
(* ("U+00E9").  The empty str is <<>>, which is the only falsy str.        *)
(***************************************************************************)
EXTENDS Integers, Sequences, FiniteSets, TLC

\* ------------------------------------------------------------------ bounds
\* Number of CSV rows main() reads in one run.
MaxRecords == 2
\* Number of arbitrary rows (full attribute product) read in one run.
MaxAnyRecords == 1
\* Length of the strings fed to encode_for_spdxid on its own.
MaxLen == 3

\* ------------------------------------------------- module-level constants
PKG_SOURCE == <<"S", "O", "U", "R", "C", "E">>
PKG_UPSTREAM == <<"U", "P", "S", "T", "R", "E", "A", "M">>
PKG_PREBUILT == <<"P", "R", "E", "B", "U", "I", "L", "T">>
NVD_CPE23 == <<"N", "V", "D", "-", "C", "P", "E", "2", ".", "3", ":">>
ISSUE_NO_METADATA == "No metadata generated in Make for installed files:"
ISSUE_NO_METADATA_FILE == "No METADATA file found for installed file:"
ISSUE_METADATA_FILE_INCOMPLETE == "METADATA file incomplete:"
ISSUE_UNKNOWN_SECURITY_TAG_TYPE == "Unknown security tag type:"
ISSUE_INSTALLED_FILE_NOT_EXIST == "Non-exist installed files:"
INFO_METADATA_FOUND_FOR_PACKAGE == "METADATA file found for packages:"

\* ------------------------------------------------------- Python str methods
Lower26 == <<"a", "b", "c", "d", "e", "f", "g", "h", "i", "j", "k", "l", "m", "n", "o", "p", "q", "r", "s", "t", "u", "v", "w", "x", "y", "z">>
Upper26 == <<"A", "B", "C", "D", "E", "F", "G", "H", "I", "J", "K", "L", "M", "N", "O", "P", "Q", "R", "S", "T", "U", "V", "W", "X", "Y", "Z">>
Digit10 == <<"0", "1", "2", "3", "4", "5", "6", "7", "8", "9">>
Range(f) == {f[i] : i \in DOMAIN f}
AsciiAlnum == Range(Lower26) \cup Range(Upper26) \cup Range(Digit10)
\* Letters outside ASCII for which str.isalnum() is true as well.
UnicodeAlnum == {"U+00E9"}

isalnum(c) == c \in AsciiAlnum \cup UnicodeAlnum

lower_char(c) ==
  IF c \in Range(Upper26)
    THEN Lower26[CHOOSE i \in 1..26 : Upper26[i] = c]
    ELSE c

lower(s) == [i \in 1..Len(s) |-> lower_char(s[i])]

startswith(s, prefix) ==
  /\ Len(prefix) <= Len(s)
  /\ SubSeq(s, 1, Len(prefix)) = prefix

endswith(s, suffix) ==
  /\ Len(suffix) <= Len(s)
  /\ SubSeq(s, Len(s) - Len(suffix) + 1, Len(s)) = suffix

removeprefix(s, prefix) ==
  IF startswith(s, prefix) THEN SubSeq(s, Len(prefix) + 1, Len(s)) ELSE s

\* s.replace(old, new) for one-character old and new.
replace(s, old, new) == [i \in 1..Len(s) |-> IF s[i] = old THEN new ELSE s[i]]

\* lstrip that drops one leading character only.
lstrip_once(s, c) == IF s # <<>> /\ Head(s) = c THEN Tail(s) ELSE s

RECURSIVE lstrip(_, _)
lstrip(s, c) ==
  IF s # <<>> /\ Head(s) = c THEN lstrip(Tail(s), c) ELSE s

RECURSIVE rstrip(_, _)
rstrip(s, c) ==
  IF s # <<>> /\ s[Len(s)] = c THEN rstrip(SubSeq(s, 1, Len(s) - 1), c) ELSE s

\* s.find(c) and s.rfind(c), 1-based, 0 when c does not occur.
find(s, c) ==
  IF \E i \in 1..Len(s) : s[i] = c
    THEN CHOOSE i \in 1..Len(s) : s[i] = c /\ \A j \in 1..(i - 1) : s[j] # c
    ELSE 0

rfind(s, c) ==
  IF \E i \in 1..Len(s) : s[i] = c
    THEN CHOOSE i \in 1..Len(s) : s[i] = c /\ \A j \in (i + 1)..Len(s) : s[j] # c
    ELSE 0

\* s.split(c)[0]
split0(s, c) == IF find(s, c) = 0 THEN s ELSE SubSeq(s, 1, find(s, c) - 1)

\* os.path.dirname and os.path.basename (posixpath).
dirname(p) ==
  LET head == SubSeq(p, 1, rfind(p, "/"))
  IN  IF head # <<>> /\ \E i \in 1..Len(head) : head[i] # "/"
        THEN rstrip(head, "/")
        ELSE head

basename(p) == SubSeq(p, rfind(p, "/") + 1, Len(p))

\* ---------------------------------------------------------- encode_for_spdxid
\* c.encode('utf-8').hex() of the characters the model uses that are neither
\* alphanumeric nor one of ".-_@/".
HexOf(c) ==
  CASE c = " " -> <<"2", "0">>
    [] c = ":" -> <<"3", "a">>
    [] c = "+" -> <<"2", "b">>
    [] c = "#" -> <<"2", "3">>

RECURSIVE encode_chars(_)
encode_chars(s) ==
  IF s = <<>> THEN <<>>
  ELSE LET c == Head(s)
           e == IF isalnum(c) \/ c \in {".", "-"} THEN <<c>>
                ELSE IF c \in {"_", "@", "/"} THEN <<"-">>
                ELSE <<"0", "x">> \o HexOf(c)
       IN  e \o encode_chars(Tail(s))

encode_for_spdxid(s) == lstrip(encode_chars(s), "-")

new_package_id(package_name, type) ==
  <<"S", "P", "D", "X", "R", "e", "f", "-">> \o type \o <<"-">> \o encode_for_spdxid(package_name)

new_file_id(file_path) == <<"S", "P", "D", "X", "R", "e", "f", "-">> \o encode_for_spdxid(file_path)

\* ------------------------------------------------------ sbom_data (library)
\* Python's None, as a value comparable with a str.
None == <<"None">>
VALUE_NONE == <<"N", "O", "N", "E">>
VALUE_NOASSERTION == <<"N", "O", "A", "S", "S", "E", "R", "T", "I", "O", "N">>
SPDXID_PRODUCT == <<"S", "P", "D", "X", "R", "e", "f", "-", "P", "R", "O", "D", "U", "C", "T">>
SPDXID_PLATFORM == <<"S", "P", "D", "X", "R", "e", "f", "-", "P", "L", "A", "T", "F", "O", "R", "M">>
VARIANT_OF == "VARIANT_OF"
GENERATED_FROM == "GENERATED_FROM"
SECURITY == "SECURITY"
cpe22Type == "cpe22Type"
cpe23Type == "cpe23Type"

Package(id, name, version, supplier, download_location, external_refs) ==
  [id |-> id, name |-> name, version |-> version, supplier |-> supplier,
   download_location |-> download_location, external_refs |-> external_refs]

PackageExternalRef(category, type, locator) ==
  [category |-> category, type |-> type, locator |-> locator]

Relationship(id1, relationship, id2) ==
  [id1 |-> id1, relationship |-> relationship, id2 |-> id2]

DocumentExternalReference(id, uri, checksum) ==
  [id |-> id, uri |-> uri, checksum |-> checksum]

\* "external_doc_ref = None"
NoDocRef == DocumentExternalReference(None, None, None)

File(id, name, checksum) == [id |-> id, name |-> name, checksum |-> checksum]

\* Document.add_package keeps the first package seen under an identifier.
add_package(d, package) ==
  IF \E i \in 1..Len(d.packages) : d.packages[i].id = package.id
    THEN d
    ELSE [d EXCEPT !.packages = Append(@, package)]

add_relationship(d, rel) == [d EXCEPT !.relationships = Append(@, rel)]

add_external_ref(d, external_ref) == [d EXCEPT !.external_refs = Append(@, external_ref)]

\* "for p in pkgs: doc.add_package(p)" that adds the fork package only.
add_packages_fork_only(d, pkgs) ==
  IF pkgs = <<>> THEN d ELSE add_package(d, Head(pkgs))

RECURSIVE add_packages(_, _)
add_packages(d, pkgs) ==
  IF pkgs = <<>> THEN d ELSE add_packages(add_package(d, Head(pkgs)), Tail(pkgs))

RECURSIVE add_relationships(_, _)
add_relationships(d, rels) ==
  IF rels = <<>> THEN d ELSE add_relationships(add_relationship(d, Head(rels)), Tail(rels))

\* ------------------------------------------------------------- command line
build_version == <<"B", "1">>
product_mfr == <<"M", "f", "r">>

\* --------------------------------------------------------------- classifier
SoongPrebuiltModuleTypes == {
    <<"a", "n", "d", "r", "o", "i", "d", "_", "a", "p", "p", "_", "i", "m", "p", "o", "r", "t">>,
    <<"a", "n", "d", "r", "o", "i", "d", "_", "l", "i", "b", "r", "a", "r", "y", "_", "i", "m", "p", "o", "r", "t">>,
    <<"c", "c", "_", "p", "r", "e", "b", "u", "i", "l", "t", "_", "b", "i", "n", "a", "r", "y">>,
    <<"c", "c", "_", "p", "r", "e", "b", "u", "i", "l", "t", "_", "l", "i", "b", "r", "a", "r", "y">>,
    <<"c", "c", "_", "p", "r", "e", "b", "u", "i", "l", "t", "_", "l", "i", "b", "r", "a", "r", "y", "_", "h", "e", "a", "d", "e", "r", "s">>,
    <<"c", "c", "_", "p", "r", "e", "b", "u", "i", "l", "t", "_", "l", "i", "b", "r", "a", "r", "y", "_", "s", "h", "a", "r", "e", "d">>,
    <<"c", "c", "_", "p", "r", "e", "b", "u", "i", "l", "t", "_", "l", "i", "b", "r", "a", "r", "y", "_", "s", "t", "a", "t", "i", "c">>,
    <<"c", "c", "_", "p", "r", "e", "b", "u", "i", "l", "t", "_", "o", "b", "j", "e", "c", "t">>,
    <<"d", "e", "x", "_", "i", "m", "p", "o", "r", "t">>,
    <<"j", "a", "v", "a", "_", "i", "m", "p", "o", "r", "t">>,
    <<"j", "a", "v", "a", "_", "s", "d", "k", "_", "l", "i", "b", "r", "a", "r", "y", "_", "i", "m", "p", "o", "r", "t">>,
    <<"j", "a", "v", "a", "_", "s", "y", "s", "t", "e", "m", "_", "m", "o", "d", "u", "l", "e", "s", "_", "i", "m", "p", "o", "r", "t">>,
    <<"l", "i", "b", "c", "l", "a", "n", "g", "_", "r", "t", "_", "p", "r", "e", "b", "u", "i", "l", "t", "_", "l", "i", "b", "r", "a", "r", "y", "_", "s", "t", "a", "t", "i", "c">>,
    <<"l", "i", "b", "c", "l", "a", "n", "g", "_", "r", "t", "_", "p", "r", "e", "b", "u", "i", "l", "t", "_", "l", "i", "b", "r", "a", "r", "y", "_", "s", "h", "a", "r", "e", "d">>,
    <<"l", "l", "v", "m", "_", "p", "r", "e", "b", "u", "i", "l", "t", "_", "l", "i", "b", "r", "a", "r", "y", "_", "s", "t", "a", "t", "i", "c">>,
    <<"n", "d", "k", "_", "p", "r", "e", "b", "u", "i", "l", "t", "_", "o", "b", "j", "e", "c", "t">>,
    <<"n", "d", "k", "_", "p", "r", "e", "b", "u", "i", "l", "t", "_", "s", "h", "a", "r", "e", "d", "_", "s", "t", "l">>,
    <<"n", "k", "d", "_", "p", "r", "e", "b", "u", "i", "l", "t", "_", "s", "t", "a", "t", "i", "c", "_", "s", "t", "l">>,
    <<"p", "r", "e", "b", "u", "i", "l", "t", "_", "a", "p", "e", "x">>,
    <<"p", "r", "e", "b", "u", "i", "l", "t", "_", "b", "o", "o", "t", "c", "l", "a", "s", "s", "p", "a", "t", "h", "_", "f", "r", "a", "g", "m", "e", "n", "t">>,
    <<"p", "r", "e", "b", "u", "i", "l", "t", "_", "d", "s", "p">>,
    <<"p", "r", "e", "b", "u", "i", "l", "t", "_", "f", "i", "r", "m", "w", "a", "r", "e">>,
    <<"p", "r", "e", "b", "u", "i", "l", "t", "_", "k", "e", "r", "n", "e", "l", "_", "m", "o", "d", "u", "l", "e", "s">>,
    <<"p", "r", "e", "b", "u", "i", "l", "t", "_", "r", "f", "s", "a">>,
    <<"p", "r", "e", "b", "u", "i", "l", "t", "_", "r", "o", "o", "t">>,
    <<"r", "u", "s", "t", "_", "p", "r", "e", "b", "u", "i", "l", "t", "_", "d", "y", "l", "i", "b">>,
    <<"r", "u", "s", "t", "_", "p", "r", "e", "b", "u", "i", "l", "t", "_", "l", "i", "b", "r", "a", "r", "y">>,
    <<"r", "u", "s", "t", "_", "p", "r", "e", "b", "u", "i", "l", "t", "_", "r", "l", "i", "b">>,
    <<"v", "n", "d", "k", "_", "p", "r", "e", "b", "u", "i", "l", "t", "_", "s", "h", "a", "r", "e", "d">>}

is_soong_prebuilt_module(file_metadata) ==
  /\ file_metadata.soong_module_type # <<>>
  /\ file_metadata.soong_module_type \in SoongPrebuiltModuleTypes

\* is_prebuilt_package without its kernel-module rule.
is_prebuilt_package_no_kernel(file_metadata) ==
  /\ file_metadata.module_path # <<>>
  /\ \/ startswith(file_metadata.module_path, <<"p", "r", "e", "b", "u", "i", "l", "t", "s", "/">>)
     \/ is_soong_prebuilt_module(file_metadata)
     \/ file_metadata.is_prebuilt_make_module # <<>>

\* is_prebuilt_package testing the module kind and the make-level flag before
\* it looks at the module path.
is_prebuilt_package_any_path(file_metadata) ==
  \/ startswith(file_metadata.module_path, <<"p", "r", "e", "b", "u", "i", "l", "t", "s", "/">>)
  \/ is_soong_prebuilt_module(file_metadata)
  \/ file_metadata.is_prebuilt_make_module # <<>>
  \/ /\ file_metadata.module_path = <<>>
     /\ file_metadata.kernel_module_copy_files # <<>>
     /\ ~startswith(file_metadata.kernel_module_copy_files, <<"A", "N", "D", "R", "O", "I", "D", "-", "G", "E", "N", ":">>)

is_prebuilt_package(file_metadata) ==
  LET module_path == file_metadata.module_path
      kernel_module_copy_files == file_metadata.kernel_module_copy_files
  IN  IF module_path # <<>>
        THEN \/ startswith(module_path, <<"p", "r", "e", "b", "u", "i", "l", "t", "s", "/">>)
             \/ is_soong_prebuilt_module(file_metadata)
             \/ file_metadata.is_prebuilt_make_module # <<>>
        ELSE /\ kernel_module_copy_files # <<>>
             /\ ~startswith(kernel_module_copy_files, <<"A", "N", "D", "R", "O", "I", "D", "-", "G", "E", "N", ":">>)

is_source_package(file_metadata) ==
  /\ startswith(file_metadata.module_path, <<"e", "x", "t", "e", "r", "n", "a", "l", "/">>)
  /\ ~is_prebuilt_package(file_metadata)

\* ------------------------------------------------- METADATA files on disk
\* metadata_file_pb2.URL.Type
HOMEPAGE == 1
GIT == 3

URL(type, value) == [type |-> type, value |-> value]

NoSbomRef == [present |-> FALSE, url |-> <<>>, checksum |-> <<>>, element_id |-> <<>>]

\* A parsed metadata_file_pb2.Metadata message; an unset field reads as "".
Metadata(name, version, homepage, url, tag, sbom_ref) ==
  [name |-> name,
   third_party |-> [version |-> version, homepage |-> homepage, url |-> url,
                    security |-> [tag |-> tag], sbom_ref |-> sbom_ref]]

\* The source tree of the run: the directories that hold a METADATA file and
\* what text_format.Parse reads from each.
MetadataFiles ==
  (<<"e", "x", "t", "e", "r", "n", "a", "l", "/", "f", "o", "o">> :> Metadata(<<"F", "o", "o">>, <<"1", ".", "2">>, <<>>,
                        <<URL(HOMEPAGE, <<"h">>), URL(GIT, <<"g">>)>>,
                        <<<<"N", "V", "D", "-", "C", "P", "E", "2", ".", "3", ":", "c", "p", "e", ":", "2", ".", "3", ":", "a">>, <<"N", "V", "D", "-", "C", "P", "E", "2", ".", "3", ":", "c", "p", "e", ":", "/", "a">>, <<"C", "V", "E", "-", "1">>>>,
                        NoSbomRef))
  @@
  (<<"e", "x", "t", "e", "r", "n", "a", "l", "/", "q", "u", "x">> :> Metadata(<<>>, <<>>, <<>>, <<>>,
                        <<<<"n", "v", "d", "-", "c", "p", "e", "2", ".", "3", ":", "c", "p", "e", ":", "2", ".", "3", ":", "a">>, <<"N", "V", "D", "-", "C", "P", "E", "2", ".", "3", ":", "x">>,
                          <<"N", "V", "D", "-", "C", "P", "E", "2", ".", "3", ":", "c", "p", "e", ":", "2", ".", "3", ":", "a">>>>,
                        NoSbomRef))
  @@
  (<<"p", "r", "e", "b", "u", "i", "l", "t", "s", "/", "s", "d", "k">> :> Metadata(<<>>, <<"3", "4">>, <<"h", "p">>, <<URL(GIT, <<"g">>)>>, <<>>,
                        [present |-> TRUE, url |-> <<"u">>, checksum |-> <<"c">>,
                         element_id |-> <<"S", "P", "D", "X", "R", "e", "f", "-", "E">>]))

\* os.path.exists(path), asked only of "<dir>/METADATA".
os_path_exists(path) ==
  \E d \in DOMAIN MetadataFiles : path = d \o <<"/", "M", "E", "T", "A", "D", "A", "T", "A">>

\* What is at product_out_dir + '/' + installed_file.
InstalledFiles ==
  (<<"/", "s", "y", "s", "t", "e", "m", "/", "a">> :> [kind |-> "file", sha1 |-> <<"b", "2">>])
  @@ (<<"/", "s", "y", "s", "t", "e", "m", "/", "a", "_", "b">> :> [kind |-> "file", sha1 |-> <<"a", "1">>])
  @@ (<<"/", "s", "y", "s", "t", "e", "m", "/", "a", "/", "b">> :> [kind |-> "symlink", sha1 |-> <<"c", "3">>])
  @@ (<<"/", "s", "y", "s", "t", "e", "m", "/", "m", ".", "f", "s", "v", "_", "m", "e", "t", "a">> :> [kind |-> "file", sha1 |-> <<"a", "1">>])
  @@ (<<"/", "s", "y", "s", "t", "e", "m", "/", "g", "o", "n", "e">> :> [kind |-> "absent", sha1 |-> <<>>])

os_path_islink(installed_file) == InstalledFiles[installed_file].kind = "symlink"
os_path_isfile(installed_file) == InstalledFiles[installed_file].kind = "file"

\* hashlib.sha1 of the file's bytes (of the link target for a symlink).
checksum(file_path) == <<"S", "H", "A", "1", ":", " ">> \o InstalledFiles[file_path].sha1

\* ----------------------------------------------------------------- resolver
RECURSIVE walk_up(_)
walk_up(metadata_path) ==
  IF metadata_path # <<>> /\ ~os_path_exists(metadata_path \o <<"/", "M", "E", "T", "A", "D", "A", "T", "A">>)
    THEN walk_up(dirname(metadata_path))
    ELSE metadata_path

get_metadata_file_path(file_metadata) ==
  walk_up(IF file_metadata.module_path # <<>>
            THEN file_metadata.module_path
          ELSE IF file_metadata.kernel_module_copy_files # <<>>
            THEN dirname(split0(file_metadata.kernel_module_copy_files, ":"))
          ELSE <<>>)

get_package_version(protos, metadata_file_path) ==
  IF metadata_file_path = <<>> THEN None
  ELSE protos[metadata_file_path].third_party.version

get_package_homepage(protos, metadata_file_path) ==
  IF metadata_file_path = <<>> THEN None
  ELSE LET third_party == protos[metadata_file_path].third_party
           url == third_party.url
           hits == {i \in 1..Len(url) : url[i].type = HOMEPAGE}
       IN  IF third_party.homepage # <<>> THEN third_party.homepage
           ELSE IF hits # {}
             THEN url[CHOOSE i \in hits : \A j \in hits : i <= j].value
           ELSE None

\* sorted(url, key=lambda url: url.type): stable insertion by type.
RECURSIVE insert_url(_, _)
insert_url(sorted, u) ==
  IF sorted = <<>> THEN <<u>>
  ELSE IF sorted[Len(sorted)].type <= u.type THEN Append(sorted, u)
  ELSE Append(insert_url(SubSeq(sorted, 1, Len(sorted) - 1), u), sorted[Len(sorted)])

RECURSIVE sorted_urls(_)
sorted_urls(url) ==
  IF url = <<>> THEN <<>>
  ELSE insert_url(sorted_urls(SubSeq(url, 1, Len(url) - 1)), url[Len(url)])

get_package_download_location(protos, metadata_file_path) ==
  IF metadata_file_path = <<>> THEN None
  ELSE LET url == protos[metadata_file_path].third_party.url
           urls == sorted_urls(url)
       IN  IF url = <<>> THEN None
           ELSE IF urls[1].type # HOMEPAGE THEN urls[1].value
           ELSE IF Len(urls) > 1 THEN urls[2].value
           ELSE None

\* --------------------------------------------------------- fragment builder
RECURSIVE security_external_refs(_)
security_external_refs(tags) ==
  IF tags = <<>> THEN <<>>
  ELSE LET tag == Head(tags)
           ref == IF startswith(lower(tag), lower(NVD_CPE23 \o <<"c", "p", "e", ":", "2", ".", "3", ":">>))
                    THEN <<PackageExternalRef(SECURITY, cpe23Type, removeprefix(tag, NVD_CPE23))>>
                  ELSE IF startswith(lower(tag), lower(NVD_CPE23 \o <<"c", "p", "e", ":", "/">>))
                    THEN <<PackageExternalRef(SECURITY, cpe22Type, removeprefix(tag, NVD_CPE23))>>
                  ELSE <<>>
       IN  ref \o security_external_refs(Tail(tags))

\* get_source_package_info that names the package by the module path even
\* when a METADATA file was found.
get_source_package_info_by_module_path(protos, file_metadata, metadata_file_path) ==
  [name |-> file_metadata.module_path,
   external_refs |->
     IF metadata_file_path = <<>> THEN <<>>
     ELSE security_external_refs(protos[metadata_file_path].third_party.security.tag)]

get_source_package_info(protos, file_metadata, metadata_file_path) ==
  IF metadata_file_path = <<>>
    THEN [name |-> file_metadata.module_path, external_refs |-> <<>>]
  ELSE LET metadata_proto == protos[metadata_file_path]
           external_refs == security_external_refs(metadata_proto.third_party.security.tag)
       IN  IF metadata_proto.name # <<>>
             THEN [name |-> metadata_proto.name, external_refs |-> external_refs]
             ELSE [name |-> basename(metadata_file_path), external_refs |-> external_refs]

\* The name before ".removeprefix('prebuilts/').replace('/', '-')"; it stays
\* None only for a record is_prebuilt_package rejects.
prebuilt_raw_name(protos, file_metadata, metadata_file_path) ==
  IF metadata_file_path # <<>>
    THEN IF protos[metadata_file_path].name # <<>>
           THEN protos[metadata_file_path].name
           ELSE metadata_file_path
  ELSE IF file_metadata.module_path # <<>>
    THEN file_metadata.module_path
  ELSE IF file_metadata.kernel_module_copy_files # <<>>
    THEN dirname(split0(file_metadata.kernel_module_copy_files, ":"))
  ELSE None

\* get_prebuilt_package_name that keeps the "prebuilts/" prefix.
get_prebuilt_package_name_keep_prefix(protos, file_metadata, metadata_file_path) ==
  replace(prebuilt_raw_name(protos, file_metadata, metadata_file_path), "/", "-")

get_prebuilt_package_name(protos, file_metadata, metadata_file_path) ==
  replace(removeprefix(prebuilt_raw_name(protos, file_metadata, metadata_file_path),
                       <<"p", "r", "e", "b", "u", "i", "l", "t", "s", "/">>),
          "/", "-")

get_sbom_fragments(protos, installed_file_metadata, metadata_file_path) ==
  LET homepage == get_package_homepage(protos, metadata_file_path)
      version == get_package_version(protos, metadata_file_path)
      download_location == get_package_download_location(protos, metadata_file_path)
  IN
  IF is_source_package(installed_file_metadata) THEN
    LET info == get_source_package_info(protos, installed_file_metadata, metadata_file_path)
        name == info.name
        source_package_id == new_package_id(name, PKG_SOURCE)
        source_package == Package(source_package_id, name, build_version,
                                  <<"O", "r", "g", "a", "n", "i", "z", "a", "t", "i", "o", "n", ":", " ">> \o product_mfr, VALUE_NONE,
                                  info.external_refs)
        upstream_package_id == new_package_id(name, PKG_UPSTREAM)
        upstream_package ==
          Package(upstream_package_id, name, version,
                  IF homepage # None /\ homepage # <<>>
                    THEN <<"O", "r", "g", "a", "n", "i", "z", "a", "t", "i", "o", "n", ":", " ">> \o homepage
                    ELSE VALUE_NOASSERTION,
                  download_location, <<>>)
    IN  [external_doc_ref |-> NoDocRef,
         packages |-> <<source_package, upstream_package>>,
         relationships |-> <<Relationship(source_package_id, VARIANT_OF, upstream_package_id)>>]
  ELSE IF is_prebuilt_package(installed_file_metadata) THEN
    LET name == get_prebuilt_package_name(protos, installed_file_metadata, metadata_file_path)
        prebuilt_package_id == new_package_id(name, PKG_PREBUILT)
        prebuilt_package == Package(prebuilt_package_id, name, build_version,
                                    <<"O", "r", "g", "a", "n", "i", "z", "a", "t", "i", "o", "n", ":", " ">> \o product_mfr, VALUE_NONE, <<>>)
        sbom_ref == protos[metadata_file_path].third_party.sbom_ref
        doc_ref_id == <<"D", "o", "c", "u", "m", "e", "n", "t", "R", "e", "f", "-">> \o PKG_UPSTREAM \o <<"-">> \o encode_for_spdxid(name)
        has_ref == /\ metadata_file_path # <<>>
                   /\ sbom_ref.present
                   /\ sbom_ref.url # <<>>
                   /\ sbom_ref.checksum # <<>>
                   /\ sbom_ref.element_id # <<>>
    IN  [external_doc_ref |->
           IF has_ref
             THEN DocumentExternalReference(doc_ref_id, sbom_ref.url, sbom_ref.checksum)
             ELSE NoDocRef,
         packages |-> <<prebuilt_package>>,
         relationships |->
           IF has_ref
             THEN <<Relationship(prebuilt_package_id, VARIANT_OF,
                                 doc_ref_id \o <<":">> \o sbom_ref.element_id)>>
             ELSE <<>>]
  ELSE [external_doc_ref |-> NoDocRef, packages |-> <<>>, relationships |-> <<>>]

\* --------------------------------------------------- verification code
\* The characters of the model in code point order.
CodePointOrder == <<" ", "#", "+", "-", ".", "/", "0", "1", "2", "3", "4", "5", "6", "7", "8", "9", ":", "@">> \o Upper26 \o <<"_">> \o Lower26
ord(c) == CHOOSE i \in 1..Len(CodePointOrder) : CodePointOrder[i] = c

\* a <= b for Python strs.
RECURSIVE str_le(_, _)
str_le(a, b) ==
  IF a = <<>> THEN TRUE
  ELSE IF b = <<>> THEN FALSE
  ELSE IF Head(a) = Head(b) THEN str_le(Tail(a), Tail(b))
  ELSE ord(Head(a)) < ord(Head(b))

RECURSIVE insert_sorted(_, _)
insert_sorted(sorted, x) ==
  IF sorted = <<>> THEN <<x>>
  ELSE IF str_le(sorted[Len(sorted)], x) THEN Append(sorted, x)
  ELSE Append(insert_sorted(SubSeq(sorted, 1, Len(sorted) - 1), x), sorted[Len(sorted)])

\* A sort that leaves the list in the order of discovery.
sort_skipped(l) == l

\* list.sort() of a list of strs.
RECURSIVE sort(_)
sort(l) ==
  IF l = <<>> THEN <<>>
  ELSE insert_sorted(sort(SubSeq(l, 1, Len(l) - 1)), l[Len(l)])

RECURSIVE join(_)
join(l) == IF l = <<>> THEN <<>> ELSE Head(l) \o join(Tail(l))

\* hashlib.sha1(data).hexdigest(): a digest stands for the bytes it was
\* computed from, so two digests are equal exactly when the bytes are
\* (no collisions).
sha1_hexdigest(data) == <<"sha1">> \o data

generate_package_verification_code(files) ==
  LET checksums == [i \in 1..Len(files) |-> files[i].checksum]
  IN  sha1_hexdigest(join(sort(checksums)))

\* ------------------------------------------------------------ diagnostics
\* installed_file_has_metadata with the ".fsv_meta" test the wrong way round.
installed_file_has_metadata_fsv(installed_file_metadata) ==
  ~ (/\ installed_file_metadata.module_path = <<>>
     /\ installed_file_metadata.product_copy_files = <<>>
     /\ installed_file_metadata.kernel_module_copy_files = <<>>
     /\ installed_file_metadata.is_platform_generated = <<>>
     /\ endswith(installed_file_metadata.installed_file, <<".", "f", "s", "v", "_", "m", "e", "t", "a">>))

installed_file_has_metadata(installed_file_metadata) ==
  ~ (/\ installed_file_metadata.module_path = <<>>
     /\ installed_file_metadata.product_copy_files = <<>>
     /\ installed_file_metadata.kernel_module_copy_files = <<>>
     /\ installed_file_metadata.is_platform_generated = <<>>
     /\ ~endswith(installed_file_metadata.installed_file, <<".", "f", "s", "v", "_", "m", "e", "t", "a">>))

RECURSIVE unknown_security_tags(_, _)
unknown_security_tags(tags, metadata_file_path) ==
  IF tags = <<>> THEN <<>>
  ELSE (IF ~startswith(Head(tags), NVD_CPE23)
          THEN <<<<"U", "n", "k", "n", "o", "w", "n", " ", "s", "e", "c", "u", "r", "i", "t", "y", " ", "t", "a", "g", " ", "t", "y", "p", "e", ":", " ">> \o Head(tags) \o <<" ", "i", "n", " ">>
                 \o metadata_file_path \o <<"/", "M", "E", "T", "A", "D", "A", "T", "A">>>>
          ELSE <<>>)
       \o unknown_security_tags(Tail(tags), metadata_file_path)

\* report_metadata_file: the report, the cache and the number of
\* text_format.Parse calls per directory after the call.
report_metadata_file(rep, protos, parses, metadata_file_path, installed_file_metadata) ==
  IF metadata_file_path # <<>> THEN
    LET found == <<"i", "n", "s", "t", "a", "l", "l", "e", "d", "_", "f", "i", "l", "e", ":", " ">> \o installed_file_metadata.installed_file
                 \o <<",", " ", "m", "o", "d", "u", "l", "e", "_", "p", "a", "t", "h", ":", " ">> \o installed_file_metadata.module_path
                 \o <<",", " ", "M", "E", "T", "A", "D", "A", "T", "A", " ", "f", "i", "l", "e", ":", " ">> \o metadata_file_path \o <<"/", "M", "E", "T", "A", "D", "A", "T", "A">>
        package_metadata == MetadataFiles[metadata_file_path]
        rep1 == [rep EXCEPT ![INFO_METADATA_FOUND_FOR_PACKAGE] = Append(@, found)]
        parses1 == [parses EXCEPT ![metadata_file_path] = @ + 1]
        incomplete ==
          (IF package_metadata.name = <<>>
             THEN <<metadata_file_path \o <<"/", "M", "E", "T", "A", "D", "A", "T", "A", " ", "d", "o", "e", "s", " ", "n", "o", "t", " ", "h", "a", "s", " ", "n", "a", "m", "e">>>>
             ELSE <<>>)
          \o
          (IF package_metadata.third_party.version = <<>>
             THEN <<metadata_file_path \o <<"/", "M", "E", "T", "A", "D", "A", "T", "A", " ", "d", "o", "e", "s", " ", "n", "o", "t", " ", "h", "a", "s", " ", "t", "h", "i", "r", "d", "_", "p", "a", "r", "t", "y", ".", "v", "e", "r", "s", "i", "o", "n">>>>
             ELSE <<>>)
    IN  IF metadata_file_path \notin DOMAIN protos
          THEN [report |->
                  [rep1 EXCEPT
                     ![ISSUE_METADATA_FILE_INCOMPLETE] = @ \o incomplete,
                     ![ISSUE_UNKNOWN_SECURITY_TAG_TYPE] =
                        @ \o unknown_security_tags(package_metadata.third_party.security.tag,
                                                   metadata_file_path)],
                protos |-> protos @@ (metadata_file_path :> package_metadata),
                parses |-> parses1]
          ELSE [report |-> rep1, protos |-> protos, parses |-> parses1]
  ELSE
    [report |-> [rep EXCEPT ![ISSUE_NO_METADATA_FILE] =
                   Append(@, <<"i", "n", "s", "t", "a", "l", "l", "e", "d", "_", "f", "i", "l", "e", ":", " ">> \o installed_file_metadata.installed_file
                             \o <<",", " ", "m", "o", "d", "u", "l", "e", "_", "p", "a", "t", "h", ":", " ">> \o installed_file_metadata.module_path)],
     protos |-> protos,
     parses |-> parses]

\* -------------------------------------------------------------------- input
\* A row of csv.DictReader: the columns main and its helpers read.
Row(f, m, t, p, c, k, g) ==
  [installed_file |-> f,
   module_path |-> m,
   soong_module_type |-> t,
   is_prebuilt_make_module |-> p,
   product_copy_files |-> c,
   kernel_module_copy_files |-> k,
   is_platform_generated |-> g]

\* The attribution columns of the rows of a metadata CSV, one entry per kind
\* of module the build writes a row for.
CsvAttributions == {
  <<<<"e", "x", "t", "e", "r", "n", "a", "l", "/", "f", "o", "o", "/", "b", "a", "r">>, <<"c", "c", "_", "l", "i", "b", "r", "a", "r", "y">>, <<>>, <<>>, <<>>, <<>>>>,
  <<<<"e", "x", "t", "e", "r", "n", "a", "l", "/", "f", "o", "o">>, <<>>, <<>>, <<>>, <<>>, <<>>>>,
  <<<<"e", "x", "t", "e", "r", "n", "a", "l", "/", "f", "o", "o">>, <<"c", "c", "_", "p", "r", "e", "b", "u", "i", "l", "t", "_", "b", "i", "n", "a", "r", "y">>, <<>>, <<>>, <<>>, <<>>>>,
  <<<<"e", "x", "t", "e", "r", "n", "a", "l", "/", "q", "u", "x">>, <<>>, <<>>, <<>>, <<>>, <<>>>>,
  <<<<"e", "x", "t", "e", "r", "n", "a", "l", "/", "b", "a", "z">>, <<>>, <<>>, <<>>, <<>>, <<>>>>,
  <<<<"p", "r", "e", "b", "u", "i", "l", "t", "s", "/", "f", "o", "o", "/", "b", "a", "r">>, <<>>, <<>>, <<>>, <<>>, <<>>>>,
  <<<<"p", "r", "e", "b", "u", "i", "l", "t", "s", "/", "s", "d", "k", "/", "t">>, <<"j", "a", "v", "a", "_", "i", "m", "p", "o", "r", "t">>, <<>>, <<>>, <<>>, <<>>>>,
  <<<<"s", "y", "s", "t", "e", "m", "/", "c", "o", "r", "e">>, <<"c", "c", "_", "l", "i", "b", "r", "a", "r", "y">>, <<>>, <<>>, <<>>, <<>>>>,
  <<<<"s", "y", "s", "t", "e", "m", "/", "c", "o", "r", "e">>, <<>>, <<"t", "r", "u", "e">>, <<>>, <<>>, <<>>>>,
  <<<<>>, <<>>, <<>>, <<"d", "e", "v", "i", "c", "e", "/", "x", ":", "s", "y", "s", "t", "e", "m", "/", "y">>, <<>>, <<>>>>,
  <<<<>>, <<>>, <<>>, <<>>, <<"k", "e", "r", "n", "e", "l", "/", "m", "/", "x", ".", "k", "o", ":", "y">>, <<>>>>,
  <<<<>>, <<>>, <<>>, <<>>, <<"A", "N", "D", "R", "O", "I", "D", "-", "G", "E", "N", ":", "a">>, <<>>>>,
  <<<<>>, <<>>, <<>>, <<>>, <<>>, <<"Y">>>>,
  <<<<>>, <<>>, <<>>, <<>>, <<>>, <<>>>> }

CsvRows ==
  {Row(f, a[1], a[2], a[3], a[4], a[5], a[6]) :
     f \in DOMAIN InstalledFiles, a \in CsvAttributions}

\* Every combination of the attribution columns, for one file.
AnyRows ==
  {Row(f, m, t, p, c, k, g) :
     f \in {<<"/", "s", "y", "s", "t", "e", "m", "/", "a">>, <<"/", "s", "y", "s", "t", "e", "m", "/", "m", ".", "f", "s", "v", "_", "m", "e", "t", "a">>},
     m \in {<<>>, <<"e", "x", "t", "e", "r", "n", "a", "l", "/", "f", "o", "o", "/", "b", "a", "r">>, <<"p", "r", "e", "b", "u", "i", "l", "t", "s", "/", "f", "o", "o", "/", "b", "a", "r">>, <<"s", "y", "s", "t", "e", "m", "/", "c", "o", "r", "e">>},
     t \in {<<>>, <<"c", "c", "_", "l", "i", "b", "r", "a", "r", "y">>, <<"c", "c", "_", "p", "r", "e", "b", "u", "i", "l", "t", "_", "b", "i", "n", "a", "r", "y">>},
     p \in {<<>>, <<"t", "r", "u", "e">>},
     c \in {<<>>, <<"d", "e", "v", "i", "c", "e", "/", "x", ":", "s", "y", "s", "t", "e", "m", "/", "y">>},
     k \in {<<>>, <<"k", "e", "r", "n", "e", "l", "/", "m", "/", "x", ".", "k", "o", ":", "y">>, <<"A", "N", "D", "R", "O", "I", "D", "-", "G", "E", "N", ":", "a">>},
     g \in {<<>>, <<"Y">>}}

\* The loop variable before the first row is read.
NoRow == Row(<<>>, <<>>, <<>>, <<>>, <<>>, <<>>, <<>>)

\* ------------------------------------------------------------------- state
VARIABLES
  pc,                      \* "loop": in main's for loop; "done": after it;
                           \* "encode", "encoded", "reencoded": the encoder alone;
                           \* "locate", "located": the download location alone
  csv,                     \* the rows the reader can yield
  rows_left,               \* how many rows the reader still holds
  seen,                    \* installed_file of the rows read so far
  installed_file_metadata, \* main's loop variable
  metadata_file_path,      \* main's local, set for Source/Prebuilt rows
  fragments,               \* (external_doc_ref, pkgs, rels) of the last call
  doc,                     \* sbom_data.Document
  file_ids,                \* product_package.file_ids
  verification_code,       \* product_package.verification_code
  report,
  metadata_file_protos,
  parse_calls,             \* text_format.Parse calls per METADATA directory
  s,                       \* encode_for_spdxid's argument
  encoded,                 \* encode_for_spdxid(s)
  reencoded,               \* encode_for_spdxid(encode_for_spdxid(s))
  url_metadata_file_path,  \* get_package_download_location's argument
  third_party_url,         \* third_party.url of the METADATA file there
  download_location        \* what get_package_download_location returned

vars == <<pc, csv, rows_left, seen, installed_file_metadata, metadata_file_path,
          fragments, doc, file_ids, verification_code, report,
          metadata_file_protos, parse_calls, s, encoded, reencoded,
          url_metadata_file_path, third_party_url, download_location>>

encode_vars == <<s, encoded, reencoded>>

url_vars == <<url_metadata_file_path, third_party_url, download_location>>

main_vars == <<csv, rows_left, seen, installed_file_metadata, metadata_file_path,
               fragments, doc, file_ids, verification_code, report,
               metadata_file_protos, parse_calls>>

NoFragments == [external_doc_ref |-> NoDocRef, packages |-> <<>>, relationships |-> <<>>]

product_package ==
  Package(SPDXID_PRODUCT, <<"P", "R", "O", "D", "U", "C", "T">>, build_version,
          <<"O", "r", "g", "a", "n", "i", "z", "a", "t", "i", "o", "n", ":", " ">> \o product_mfr, VALUE_NONE, <<>>)

platform_package ==
  Package(SPDXID_PLATFORM, <<"P", "L", "A", "T", "F", "O", "R", "M">>, build_version,
          <<"O", "r", "g", "a", "n", "i", "z", "a", "t", "i", "o", "n", ":", " ">> \o product_mfr, VALUE_NONE, <<>>)

\* main() up to the for loop.
MainInit ==
  /\ seen = {}
  /\ installed_file_metadata = NoRow
  /\ metadata_file_path = None
  /\ fragments = NoFragments
  /\ doc = [packages |-> <<product_package, platform_package>>,
            files |-> <<>>, relationships |-> <<>>, external_refs |-> <<>>]
  /\ file_ids = <<>>
  /\ verification_code = None
  /\ report = [c \in {ISSUE_NO_METADATA, ISSUE_NO_METADATA_FILE,
                      ISSUE_METADATA_FILE_INCOMPLETE, ISSUE_UNKNOWN_SECURITY_TAG_TYPE,
                      ISSUE_INSTALLED_FILE_NOT_EXIST, INFO_METADATA_FOUND_FOR_PACKAGE}
                 |-> <<>>]
  /\ metadata_file_protos = <<>>
  /\ parse_calls = [d \in DOMAIN MetadataFiles |-> 0]

\* The variables of get_package_download_location on its own, unused.
UrlInit ==
  /\ url_metadata_file_path = <<>>
  /\ third_party_url = <<>>
  /\ download_location = None

Init ==
  /\ pc = "loop"
  /\ csv = "rows"
  /\ rows_left \in 0..MaxRecords
  /\ MainInit
  /\ s = <<>> /\ encoded = <<>> /\ reencoded = <<>>
  /\ UrlInit

InitAny ==
  /\ pc = "loop"
  /\ csv = "any"
  /\ rows_left \in 0..MaxAnyRecords
  /\ MainInit
  /\ s = <<>> /\ encoded = <<>> /\ reencoded = <<>>
  /\ UrlInit

\* ------------------------------------------------------------------ actions
\* One iteration of main's "for installed_file_metadata in reader".
MainLoopBody(row) ==
  LET installed_file == row.installed_file
      module_path == row.module_path
      product_copy_files == row.product_copy_files
      kernel_module_copy_files == row.kernel_module_copy_files
      file_id == new_file_id(installed_file)
      doc1 == [doc EXCEPT !.files = Append(@, File(file_id, installed_file,
                                                   checksum(installed_file)))]
      path == get_metadata_file_path(row)
      rmf == report_metadata_file(report, metadata_file_protos, parse_calls, path, row)
      frag == get_sbom_fragments(rmf.protos, row, path)
      generated_from(id2) == Relationship(file_id, GENERATED_FROM, id2)
  IN
  /\ pc = "loop"
  /\ rows_left > 0
  /\ installed_file \notin seen
  /\ rows_left' = rows_left - 1
  /\ seen' = seen \cup {installed_file}
  /\ installed_file_metadata' = row
  /\ UNCHANGED <<pc, csv, verification_code, s, encoded, reencoded>>
  /\ UNCHANGED url_vars
  /\ IF ~installed_file_has_metadata(row) THEN
       /\ report' = [report EXCEPT ![ISSUE_NO_METADATA] = Append(@, installed_file)]
       /\ UNCHANGED <<metadata_file_path, fragments, doc, file_ids,
                      metadata_file_protos, parse_calls>>
     ELSE IF ~(os_path_islink(installed_file) \/ os_path_isfile(installed_file)) THEN
       /\ report' = [report EXCEPT ![ISSUE_INSTALLED_FILE_NOT_EXIST] =
                       Append(@, installed_file)]
       /\ UNCHANGED <<metadata_file_path, fragments, doc, file_ids,
                      metadata_file_protos, parse_calls>>
     ELSE
       /\ file_ids' = Append(file_ids, file_id)
       /\ IF is_source_package(row) \/ is_prebuilt_package(row) THEN
            /\ metadata_file_path' = path
            /\ report' = rmf.report
            /\ metadata_file_protos' = rmf.protos
            /\ parse_calls' = rmf.parses
            /\ fragments' = frag
            /\ doc' =
                 IF Len(frag.packages) > 0
                   THEN add_relationship(
                          add_relationships(
                            add_packages(
                              IF frag.external_doc_ref # NoDocRef
                                THEN add_external_ref(doc1, frag.external_doc_ref)
                                ELSE doc1,
                              frag.packages),
                            frag.relationships),
                          generated_from(frag.packages[1].id))
                   ELSE doc1
          ELSE
            /\ UNCHANGED <<metadata_file_path, fragments, report,
                           metadata_file_protos, parse_calls>>
            /\ doc' =
                 IF module_path # <<>> \/ row.is_platform_generated # <<>>
                   THEN add_relationship(doc1, generated_from(SPDXID_PLATFORM))
                 ELSE IF product_copy_files # <<>>
                   THEN add_relationship(doc1, generated_from(SPDXID_PLATFORM))
                 ELSE IF endswith(installed_file, <<".", "f", "s", "v", "_", "m", "e", "t", "a">>)
                   THEN add_relationship(doc1, generated_from(SPDXID_PLATFORM))
                 ELSE IF startswith(kernel_module_copy_files, <<"A", "N", "D", "R", "O", "I", "D", "-", "G", "E", "N">>)
                   THEN add_relationship(doc1, generated_from(SPDXID_PLATFORM))
                 ELSE doc1

ReadRow ==
  \E row \in (IF csv = "any" THEN AnyRows ELSE CsvRows) : MainLoopBody(row)

\* main() after the loop: the verification code of the product package.
Finish ==
  /\ pc = "loop"
  /\ rows_left = 0
  /\ pc' = "done"
  /\ verification_code' = generate_package_verification_code(doc.files)
  /\ UNCHANGED <<csv, rows_left, seen, installed_file_metadata, metadata_file_path,
                 fragments, doc, file_ids, report, metadata_file_protos, parse_calls,
                 s, encoded, reencoded>>
  /\ UNCHANGED url_vars

Next == ReadRow \/ Finish

Spec == Init /\ [][Next]_vars

\* One row with any combination of the attribution columns.
SpecAny == InitAny /\ [][Next]_vars

\* ------------------------------------------- encode_for_spdxid on its own
EncodeAlphabet == {"a", "Z", "0", ".", "-", "_", "@", "/", " ", "U+00E9"}

RECURSIVE Strings(_)
Strings(n) ==
  IF n = 0 THEN {<<>>}
  ELSE Strings(n - 1) \cup
       {Append(t, c) : t \in {u \in Strings(n - 1) : Len(u) = n - 1}, c \in EncodeAlphabet}

InitEncode ==
  /\ pc = "encode"
  /\ s \in Strings(MaxLen)
  /\ encoded = <<>>
  /\ reencoded = <<>>
  /\ csv = "rows"
  /\ rows_left = 0
  /\ MainInit
  /\ UrlInit

Encode ==
  /\ pc = "encode"
  /\ encoded' = encode_for_spdxid(s)
  /\ pc' = "encoded"
  /\ UNCHANGED <<s, reencoded>>
  /\ UNCHANGED main_vars
  /\ UNCHANGED url_vars

EncodeAgain ==
  /\ pc = "encoded"
  /\ reencoded' = encode_for_spdxid(encoded)
  /\ pc' = "reencoded"
  /\ UNCHANGED <<s, encoded>>
  /\ UNCHANGED main_vars
  /\ UNCHANGED url_vars

NextEncode == Encode \/ EncodeAgain

SpecEncode == InitEncode /\ [][NextEncode]_vars

\* ------------------------------- get_package_download_location on its own
\* Number of entries of third_party.url.
MaxUrls == 3

UrlEntries == {URL(t, v) : t \in {HOMEPAGE, GIT}, v \in {<<"h">>, <<"g">>}}

RECURSIVE UrlLists(_)
UrlLists(n) ==
  IF n = 0 THEN {<<>>}
  ELSE UrlLists(n - 1) \cup
       {Append(l, u) : l \in {k \in UrlLists(n - 1) : Len(k) = n - 1}, u \in UrlEntries}

\* Either no METADATA directory was resolved, or one whose METADATA file
\* lists any urls.
InitUrl ==
  /\ pc = "locate"
  /\ \/ /\ url_metadata_file_path = <<>>
        /\ third_party_url = <<>>
     \/ /\ url_metadata_file_path = <<"e", "x", "t", "e", "r", "n", "a", "l", "/", "u">>
        /\ third_party_url \in UrlLists(MaxUrls)
  /\ download_location = None
  /\ csv = "rows"
  /\ rows_left = 0
  /\ MainInit
  /\ s = <<>> /\ encoded = <<>> /\ reencoded = <<>>

Locate ==
  /\ pc = "locate"
  /\ download_location' =
       get_package_download_location(
         IF url_metadata_file_path = <<>> THEN <<>>
         ELSE url_metadata_file_path :>
                Metadata(<<>>, <<>>, <<>>, third_party_url, <<>>, NoSbomRef),
         url_metadata_file_path)
  /\ pc' = "located"
  /\ UNCHANGED <<url_metadata_file_path, third_party_url>>
  /\ UNCHANGED main_vars
  /\ UNCHANGED encode_vars

NextUrl == Locate

SpecUrl == InitUrl /\ [][NextUrl]_vars

\* ------------------------------------------------------------ properties
\* The row of the state made it past both "continue"s of the loop.
Accepted(row) ==
  /\ row # NoRow
  /\ installed_file_has_metadata(row)
  /\ os_path_islink(row.installed_file) \/ os_path_isfile(row.installed_file)

\* The relationships a step appended to the document.
NewRelationships ==
  SubSeq(doc'.relationships, Len(doc.relationships) + 1, Len(doc'.relationships))

IsPrefix(a, b) == Len(a) <= Len(b) /\ SubSeq(b, 1, Len(a)) = a

\* C1: every row that passes installed_file_has_metadata and whose file
\* exists is exactly one of Source, Prebuilt or Platform (neither), and the
\* iteration adds exactly one "generated-from" relationship, from the row's
\* file id: to the SOURCE package for Source, to the PREBUILT package for
\* Prebuilt, to the Platform package otherwise, never to an UPSTREAM package.
C1_OneGeneratedFromEdge ==
  [][(rows_left' = rows_left - 1 /\ Accepted(installed_file_metadata')) =>
       LET row == installed_file_metadata'
           new == NewRelationships
           gen == {i \in 1..Len(new) : new[i].relationship = GENERATED_FROM}
           edge == new[CHOOSE i \in gen : TRUE]
           fork == fragments'.packages[1]
       IN  /\ ~(is_source_package(row) /\ is_prebuilt_package(row))
           /\ IsPrefix(doc.relationships, doc'.relationships)
           /\ Cardinality(gen) = 1
           /\ edge.id1 = new_file_id(row.installed_file)
           /\ is_source_package(row) =>
                /\ edge.id2 = <<"S", "P", "D", "X", "R", "e", "f", "-", "S", "O", "U", "R", "C", "E", "-">> \o encode_for_spdxid(fork.name)
                /\ \E i \in 1..Len(doc'.packages) : doc'.packages[i].id = edge.id2
           /\ is_prebuilt_package(row) =>
                /\ edge.id2 = <<"S", "P", "D", "X", "R", "e", "f", "-", "P", "R", "E", "B", "U", "I", "L", "T", "-">> \o encode_for_spdxid(fork.name)
                /\ \E i \in 1..Len(doc'.packages) : doc'.packages[i].id = edge.id2
           /\ (~is_source_package(row) /\ ~is_prebuilt_package(row)) =>
                edge.id2 = SPDXID_PLATFORM
           /\ ~startswith(edge.id2, <<"S", "P", "D", "X", "R", "e", "f", "-", "U", "P", "S", "T", "R", "E", "A", "M", "-">>)]_vars

\* A kernel-module row is the only accepted row without a module path that
\* reaches the end of main's elif chain by its kernel_module_copy_files.
C1_Witness ==
  /\ Accepted(installed_file_metadata)
  /\ installed_file_metadata.module_path = <<>>
  /\ installed_file_metadata.product_copy_files = <<>>
  /\ installed_file_metadata.is_platform_generated = <<>>
  /\ is_prebuilt_package(installed_file_metadata)
  /\ \E i \in 1..Len(doc.relationships) :
       /\ doc.relationships[i].relationship = GENERATED_FROM
       /\ doc.relationships[i].id2 = <<"S", "P", "D", "X", "R", "e", "f", "-", "P", "R", "E", "B", "U", "I", "L", "T", "-", "k", "e", "r", "n", "e", "l", "-", "m">>

\* C2 as stated: Prebuilt exactly when the module path begins with
\* "prebuilts/", or the module kind is in the allow-list, or the
\* make-level-prebuilt flag is set (these two with or without a module
\* path), or there is no module path and kernel_module_copy_files is
\* non-empty and does not begin with "ANDROID-GEN:".
C2_AsStated ==
  LET fm == installed_file_metadata
  IN  Accepted(fm) =>
      (is_prebuilt_package(fm) <=>
        \/ startswith(fm.module_path, <<"p", "r", "e", "b", "u", "i", "l", "t", "s", "/">>)
        \/ fm.soong_module_type \in SoongPrebuiltModuleTypes
        \/ fm.is_prebuilt_make_module # <<>>
        \/ /\ fm.module_path = <<>>
           /\ fm.kernel_module_copy_files # <<>>
           /\ ~startswith(fm.kernel_module_copy_files, <<"A", "N", "D", "R", "O", "I", "D", "-", "G", "E", "N", ":">>))

\* C2 (amended): Prebuilt exactly when the row has a module path and that
\* path begins with "prebuilts/", or its module kind is in the allow-list,
\* or its make-level-prebuilt flag is set; or the row has no module path and
\* kernel_module_copy_files is non-empty and does not begin with
\* "ANDROID-GEN:".  Without a module path the kind and the flag do not count.
C2_PrebuiltExactlyWhen ==
  LET fm == installed_file_metadata
  IN  is_prebuilt_package(fm) <=>
        \/ /\ fm.module_path # <<>>
           /\ \/ startswith(fm.module_path, <<"p", "r", "e", "b", "u", "i", "l", "t", "s", "/">>)
              \/ fm.soong_module_type \in SoongPrebuiltModuleTypes
              \/ fm.is_prebuilt_make_module # <<>>
        \/ /\ fm.module_path = <<>>
           /\ fm.kernel_module_copy_files # <<>>
           /\ ~startswith(fm.kernel_module_copy_files, <<"A", "N", "D", "R", "O", "I", "D", "-", "G", "E", "N", ":">>)

\* A row with an allow-listed kind and no module path went down the Platform
\* branch of main.
C2_Witness ==
  /\ Accepted(installed_file_metadata)
  /\ installed_file_metadata.module_path = <<>>
  /\ installed_file_metadata.soong_module_type = <<"c", "c", "_", "p", "r", "e", "b", "u", "i", "l", "t", "_", "b", "i", "n", "a", "r", "y">>
  /\ installed_file_metadata.is_prebuilt_make_module # <<>>
  /\ ~is_prebuilt_package(installed_file_metadata)
  /\ Len(doc.relationships) = 1
  /\ doc.relationships[1].id2 = SPDXID_PLATFORM

\* C3: within one run the METADATA file of a directory is parsed at most
\* once, however many rows resolve to the directory.
C3_ParsedOnce ==
  \A d \in DOMAIN MetadataFiles : parse_calls[d] <= 1

\* C4: the verification code main stores is the code of every permutation
\* of doc.files: it depends on the checksums, not on the order of discovery.
C4_OrderIndependent ==
  pc = "done" =>
    \A p \in Permutations(1..Len(doc.files)) :
      generate_package_verification_code([i \in 1..Len(doc.files) |-> doc.files[p[i]]])
        = verification_code

\* Two files were appended in descending order of their checksums.
C4_Witness ==
  /\ pc = "done"
  /\ Len(doc.files) >= 2
  /\ doc.files[1].checksum # doc.files[2].checksum
  /\ str_le(doc.files[2].checksum, doc.files[1].checksum)

\* C5: encode_for_spdxid returns only characters of A-Z a-z 0-9 . - and no
\* leading "-".
C5_RestrictedCharset ==
  pc \in {"encoded", "reencoded"} =>
    /\ \A i \in 1..Len(encoded) : encoded[i] \in AsciiAlnum \cup {".", "-"}
    /\ encoded = <<>> \/ encoded[1] # "-"

\* C6: on a string of A-Z a-z 0-9 . - only, encoding the encoded string
\* gives the encoded string again, and it has no leading "-".
C6_Idempotent ==
  (pc = "reencoded" /\ \A i \in 1..Len(s) : s[i] \in AsciiAlnum \cup {".", "-"}) =>
    /\ reencoded = encoded
    /\ encoded = <<>> \/ encoded[1] # "-"

\* A string of the restricted set with two leading "-" was encoded twice.
C6_Witness ==
  /\ pc = "reencoded"
  /\ \A i \in 1..Len(s) : s[i] \in AsciiAlnum \cup {".", "-"}
  /\ Len(s) >= 3 /\ s[1] = "-" /\ s[2] = "-"
  /\ encoded # <<>>

\* The name C7 gives a Source package: the name the METADATA file of the
\* resolved directory declares, else the directory's base name, else the
\* module path when no directory was resolved.
C7_Name(fm, path) ==
  IF path = <<>> THEN fm.module_path
  ELSE IF MetadataFiles[path].name # <<>> THEN MetadataFiles[path].name
  ELSE basename(path)

\* C7: for a Source row get_sbom_fragments returns a SOURCE package named N
\* (build version, download location withheld, supplier the manufacturer)
\* followed by an UPSTREAM package named N with the METADATA file's version,
\* one "variant-of" relationship Source -> Upstream, and no document reference.
C7_SourceFragments ==
  LET fm == installed_file_metadata
      N == C7_Name(fm, metadata_file_path)
      pkgs == fragments.packages
  IN  (Accepted(fm) /\ is_source_package(fm)) =>
        /\ Len(pkgs) = 2
        /\ pkgs[1].id = <<"S", "P", "D", "X", "R", "e", "f", "-", "S", "O", "U", "R", "C", "E", "-">> \o encode_for_spdxid(N)
        /\ pkgs[1].name = N
        /\ pkgs[1].version = build_version
        /\ pkgs[1].download_location = VALUE_NONE
        /\ pkgs[1].supplier = <<"O", "r", "g", "a", "n", "i", "z", "a", "t", "i", "o", "n", ":", " ">> \o product_mfr
        /\ pkgs[2].id = <<"S", "P", "D", "X", "R", "e", "f", "-", "U", "P", "S", "T", "R", "E", "A", "M", "-">> \o encode_for_spdxid(N)
        /\ pkgs[2].name = N
        /\ metadata_file_path # <<>> =>
             pkgs[2].version = MetadataFiles[metadata_file_path].third_party.version
        /\ fragments.relationships = <<Relationship(pkgs[1].id, VARIANT_OF, pkgs[2].id)>>
        /\ fragments.external_doc_ref = NoDocRef

\* The round trip of the spec: name "Foo", version "1.2", found by walking up
\* from external/foo/bar.
C7_Witness ==
  /\ Accepted(installed_file_metadata)
  /\ is_source_package(installed_file_metadata)
  /\ installed_file_metadata.module_path = <<"e", "x", "t", "e", "r", "n", "a", "l", "/", "f", "o", "o", "/", "b", "a", "r">>
  /\ fragments.packages[1].name = <<"F", "o", "o">>
  /\ fragments.packages[2].name = <<"F", "o", "o">>
  /\ fragments.packages[2].version = <<"1", ".", "2">>

\* C8: for a Prebuilt row with module path P and no resolved METADATA
\* directory get_sbom_fragments returns one PREBUILT package named P without
\* a leading "prebuilts/" and with "-" for every "/", download location
\* withheld, build version, supplier the manufacturer, no relationship and
\* no document reference.  For every Prebuilt row the name comes from the
\* METADATA name, else the METADATA directory, else the module path, else
\* the directory of the kernel module's source.
C8_PrebuiltFragments ==
  LET fm == installed_file_metadata
      path == metadata_file_path
      pkgs == fragments.packages
      raw == IF path # <<>> /\ MetadataFiles[path].name # <<>> THEN MetadataFiles[path].name
             ELSE IF path # <<>> THEN path
             ELSE IF fm.module_path # <<>> THEN fm.module_path
             ELSE dirname(split0(fm.kernel_module_copy_files, ":"))
      name == replace(removeprefix(raw, <<"p", "r", "e", "b", "u", "i", "l", "t", "s", "/">>), "/", "-")
  IN  (Accepted(fm) /\ is_prebuilt_package(fm)) =>
        /\ Len(pkgs) = 1
        /\ pkgs[1].name = name
        /\ pkgs[1].id = <<"S", "P", "D", "X", "R", "e", "f", "-", "P", "R", "E", "B", "U", "I", "L", "T", "-">> \o encode_for_spdxid(name)
        /\ pkgs[1].download_location = VALUE_NONE
        /\ pkgs[1].version = build_version
        /\ pkgs[1].supplier = <<"O", "r", "g", "a", "n", "i", "z", "a", "t", "i", "o", "n", ":", " ">> \o product_mfr
        /\ (path = <<>> /\ fm.module_path # <<>>) =>
             /\ raw = fm.module_path
             /\ fragments.relationships = <<>>
             /\ fragments.external_doc_ref = NoDocRef
             /\ ~startswith(pkgs[1].name, <<"p", "r", "e", "b", "u", "i", "l", "t", "s", "/">>)
             /\ \A i \in 1..Len(pkgs[1].name) : pkgs[1].name[i] # "/"
        /\ fm.module_path = <<"p", "r", "e", "b", "u", "i", "l", "t", "s", "/", "f", "o", "o", "/", "b", "a", "r">> => pkgs[1].name = <<"f", "o", "o", "-", "b", "a", "r">>

C8_Witness ==
  /\ Accepted(installed_file_metadata)
  /\ is_prebuilt_package(installed_file_metadata)
  /\ installed_file_metadata.module_path = <<"p", "r", "e", "b", "u", "i", "l", "t", "s", "/", "f", "o", "o", "/", "b", "a", "r">>
  /\ metadata_file_path = <<>>
  /\ fragments.packages[1].name = <<"f", "o", "o", "-", "b", "a", "r">>

\* The row read by a step has no module path, no product-copy marker, no
\* kernel-module marker, is not platform generated and is no ".fsv_meta" file.
C9_NoMetadata(row) ==
  /\ row.module_path = <<>>
  /\ row.product_copy_files = <<>>
  /\ row.kernel_module_copy_files = <<>>
  /\ row.is_platform_generated = <<>>
  /\ ~endswith(row.installed_file, <<".", "f", "s", "v", "_", "m", "e", "t", "a">>)

\* The step appended msg to one category of the report and nothing else.
C9_OnlyReported(category, msg) ==
  /\ report'[category] = Append(report[category], msg)
  /\ \A c \in DOMAIN report : c # category => report'[c] = report[c]
  /\ doc' = doc
  /\ file_ids' = file_ids
  /\ pc' = "loop"

\* C9: a row without any metadata adds its installed path to the "no
\* metadata" category, a row with metadata whose installed file is neither a
\* regular file nor a symlink adds it to the "file not exist" category; in
\* both cases the document and the product package's file ids stay as they
\* were, no other category changes and the loop goes on.
C9_SkippedRows ==
  [][rows_left' = rows_left - 1 =>
       LET row == installed_file_metadata'
       IN  /\ C9_NoMetadata(row) =>
                C9_OnlyReported(ISSUE_NO_METADATA, row.installed_file)
           /\ (/\ ~C9_NoMetadata(row)
               /\ InstalledFiles[row.installed_file].kind \notin {"file", "symlink"}) =>
                C9_OnlyReported(ISSUE_INSTALLED_FILE_NOT_EXIST, row.installed_file)]_vars

\* A file was added, then a row with metadata for a file that is not on disk
\* was skipped: the document still holds the one file and its edge.
C9_Witness ==
  /\ pc = "loop"
  /\ Len(doc.files) = 1
  /\ Len(doc.relationships) >= 1
  /\ report[ISSUE_INSTALLED_FILE_NOT_EXIST] = <<<<"/", "s", "y", "s", "t", "e", "m", "/", "g", "o", "n", "e">>>>
  /\ installed_file_metadata.installed_file = <<"/", "s", "y", "s", "t", "e", "m", "/", "g", "o", "n", "e">>
  /\ ~C9_NoMetadata(installed_file_metadata)

\* The external references C10 expects of a list of security tags.
RECURSIVE C10_Expected(_)
C10_Expected(tags) ==
  IF tags = <<>> THEN <<>>
  ELSE (IF startswith(Head(tags), NVD_CPE23 \o <<"c", "p", "e", ":", "2", ".", "3", ":">>)
          THEN <<PackageExternalRef(SECURITY, cpe23Type, removeprefix(Head(tags), NVD_CPE23))>>
        ELSE IF startswith(Head(tags), NVD_CPE23 \o <<"c", "p", "e", ":", "/">>)
          THEN <<PackageExternalRef(SECURITY, cpe22Type, removeprefix(Head(tags), NVD_CPE23))>>
        ELSE <<>>)
       \o C10_Expected(Tail(tags))

\* C10: the external references of a Source package are one cpe23Type
\* reference per tag "NVD-CPE2.3:cpe:2.3:..." and one cpe22Type reference per
\* tag "NVD-CPE2.3:cpe:/...", with the tag less "NVD-CPE2.3:" as locator, so
\* every locator begins with "cpe:"; no other tag yields a reference, and no
\* tag that yields one is reported as an unknown security tag type.
C10_SecurityRefs ==
  LET fm == installed_file_metadata
      path == metadata_file_path
      tags == MetadataFiles[path].third_party.security.tag
      refs == fragments.packages[1].external_refs
  IN  (Accepted(fm) /\ is_source_package(fm) /\ path # <<>>) =>
        /\ refs = C10_Expected(tags)
        /\ \A i \in 1..Len(refs) :
             /\ refs[i].category = SECURITY
             /\ startswith(refs[i].locator, <<"c", "p", "e", ":">>)
        /\ \A i \in 1..Len(tags) :
             (\/ startswith(lower(tags[i]), lower(NVD_CPE23 \o <<"c", "p", "e", ":", "2", ".", "3", ":">>))
              \/ startswith(lower(tags[i]), lower(NVD_CPE23 \o <<"c", "p", "e", ":", "/">>))) =>
               \A j \in 1..Len(report[ISSUE_UNKNOWN_SECURITY_TAG_TYPE]) :
                 report[ISSUE_UNKNOWN_SECURITY_TAG_TYPE][j] #
                   <<"U", "n", "k", "n", "o", "w", "n", " ", "s", "e", "c", "u", "r", "i", "t", "y", " ", "t", "a", "g", " ", "t", "y", "p", "e", ":", " ">> \o tags[i] \o <<" ", "i", "n", " ">>
                   \o path \o <<"/", "M", "E", "T", "A", "D", "A", "T", "A">>

\* An endpoint of a relationship names a package or a file of the document,
\* or "<DocumentRef id>:<element id>" for a document reference of the document.
C11_Resolves(id) ==
  \/ \E i \in 1..Len(doc.packages) : doc.packages[i].id = id
  \/ \E i \in 1..Len(doc.files) : doc.files[i].id = id
  \/ \E i \in 1..Len(doc.external_refs) :
       /\ startswith(id, doc.external_refs[i].id \o <<":">>)
       /\ Len(id) > Len(doc.external_refs[i].id) + 1

\* C11: after every row, and when the loop is over and the document goes to
\* the writer, both endpoints of every relationship of the document resolve
\* to a package, a file or an element of an external document reference
\* that is in the document.
C11_EndpointsResolve ==
  \A i \in 1..Len(doc.relationships) :
    /\ C11_Resolves(doc.relationships[i].id1)
    /\ C11_Resolves(doc.relationships[i].id2)
    /\ (/\ \A j \in 1..Len(doc.packages) : doc.packages[j].id # doc.relationships[i].id2
        /\ \A j \in 1..Len(doc.files) : doc.files[j].id # doc.relationships[i].id2)
         => doc.relationships[i].relationship = VARIANT_OF

\* The loop is over and the document holds a Source -> Upstream edge and a
\* Prebuilt edge into the external document of prebuilts/sdk.
C11_Witness ==
  /\ pc = "done"
  /\ \E i \in 1..Len(doc.relationships) :
       /\ doc.relationships[i].relationship = VARIANT_OF
       /\ doc.relationships[i].id2 =
            <<"D", "o", "c", "u", "m", "e", "n", "t", "R", "e", "f", "-", "U", "P", "S", "T", "R", "E", "A", "M", "-", "s", "d", "k", ":", "S", "P", "D", "X", "R", "e", "f", "-", "E">>
  /\ \E i \in 1..Len(doc.relationships) :
       /\ doc.relationships[i].relationship = VARIANT_OF
       /\ doc.relationships[i].id2 =
            <<"S", "P", "D", "X", "R", "e", "f", "-", "U", "P", "S", "T", "R", "E", "A", "M", "-", "F", "o", "o">>
  /\ Len(doc.external_refs) = 1

\* C12: when the METADATA file lists a url whose type is not HOMEPAGE, the
\* download location is the value of a url whose type is not HOMEPAGE; it is
\* None only when no METADATA directory was resolved or the urls are none or
\* a single HOMEPAGE url.
C12_NonHomepageLocation ==
  LET url == third_party_url
      others == {i \in 1..Len(url) : url[i].type # HOMEPAGE}
  IN  pc = "located" =>
        /\ others # {} => \E i \in others : url[i].value = download_location
        /\ download_location = None =>
             \/ url_metadata_file_path = <<>>
             \/ url = <<>>
             \/ Len(url) = 1 /\ url[1].type = HOMEPAGE

\* C13: the rows of a run have pairwise distinct installed paths, so the
\* files of the document have pairwise distinct identifiers, and
\* product_package.file_ids lists exactly those identifiers, in the order of
\* doc.files.
C13_DistinctFileIds ==
  /\ \A i, j \in 1..Len(doc.files) :
       i # j => /\ doc.files[i].name # doc.files[j].name
                /\ doc.files[i].id # doc.files[j].id
  /\ file_ids = [i \in 1..Len(doc.files) |-> doc.files[i].id]

====
